---- MODULE Spec2Model ----
(***************************************************************************)
(* Model of the folder scanners of the repository:                         *)
(*   folder_scanner.py       single-level scan, report to scan_report.txt  *)
(*   folder_report.py        recursive scan, report saved in the folder    *)
(*   filter_by_extension.py  recursive scan with include/exclude filters   *)
(*                                                                         *)
(* Strings the code inspects character by character (file names,           *)
(* extensions) are sequences of one-character strings.  Byte counts that   *)
(* format_size receives are little-endian sequences of base-1024 digits,   *)
(* so that values of 1024^6 and more are represented exactly.              *)
(***************************************************************************)
EXTENDS Integers, Sequences, FiniteSets, TLC

VARIABLES
    root_is_dir,  \* Path(folder).resolve().is_dir() / os.path.isdir(folder)
    fs,           \* the tree under the root: its entries in the order the walk yields them
    prog,         \* which script is being run
    args,         \* the parsed command line / the arguments of a direct call
    pc,           \* position of the invocation
    data,         \* the dict returned by the scan
    report,       \* the lines build_report returned
    stdout,       \* what was printed, line tags in order
    written,      \* the report files written by this session
    exit_code,    \* exit status of the process, NoExit while it runs
    raised,       \* the exception that ended the scan, "" when none
    run,          \* 1 for the first invocation, 2 for the repeated one
    prev,         \* the scan result of the previous invocation
    fmt_fn,       \* which format_size was called
    fmt_in,       \* its argument
    fmt_out       \* its result

vars == <<root_is_dir, fs, prog, args, pc, data, report, stdout, written,
          exit_code, raised, run, prev, fmt_fn, fmt_in, fmt_out>>

-----------------------------------------------------------------------------
(* Bounds of the model *)

MaxEntries == 2     \* entries in the scanned tree
MaxSize == 1        \* st_size of a file is in 0..MaxSize
MaxDepth == 2       \* depth of an entry below the root
MaxDigits == 7      \* base-1024 digits of a byte count given to format_size

-----------------------------------------------------------------------------
(* Strings *)

Lower(ch) ==
    CASE ch = "A" -> "a" [] ch = "B" -> "b" [] ch = "T" -> "t"
      [] ch = "X" -> "x" [] ch = "P" -> "p" [] ch = "Y" -> "y"
      [] OTHER -> ch

lower(s) == [i \in 1..Len(s) |-> Lower(s[i])]

startswith_dot(s) == Len(s) > 0 /\ s[1] = "."

\* code points, for the order sorted() puts the extension keys in
Ord(ch) ==
    CASE ch = " " -> 32 [] ch = "(" -> 40 [] ch = ")" -> 41 [] ch = "." -> 46
      [] ch = "_" -> 95
      [] ch = "A" -> 65 [] ch = "B" -> 66 [] ch = "P" -> 80 [] ch = "T" -> 84
      [] ch = "X" -> 88 [] ch = "Y" -> 89
      [] ch = "a" -> 97 [] ch = "b" -> 98 [] ch = "c" -> 99 [] ch = "d" -> 100
      [] ch = "e" -> 101 [] ch = "f" -> 102 [] ch = "i" -> 105 [] ch = "l" -> 108
      [] ch = "n" -> 110 [] ch = "o" -> 111 [] ch = "p" -> 112 [] ch = "r" -> 114
      [] ch = "s" -> 115 [] ch = "t" -> 116 [] ch = "u" -> 117 [] ch = "x" -> 120
      [] ch = "y" -> 121

RECURSIVE StrLess(_, _)
StrLess(s, t) ==
    IF t = <<>> THEN FALSE
    ELSE IF s = <<>> THEN TRUE
    ELSE IF Ord(s[1]) # Ord(t[1]) THEN Ord(s[1]) < Ord(t[1])
    ELSE StrLess(Tail(s), Tail(t))

RECURSIVE sorted(_)
sorted(keys) ==
    IF keys = {} THEN <<>>
    ELSE LET m == CHOOSE k \in keys : \A o \in keys \ {k} : StrLess(k, o)
         IN  <<m>> \o sorted(keys \ {m})

NO_EXTENSION == <<"(", "n", "o", " ", "e", "x", "t", "e", "n", "s", "i", "o", "n", ")">>

\* position of the last "." of a name, 0 when there is none (str.rfind, 1-based)
RECURSIVE rfind_dot(_, _)
rfind_dot(name, i) ==
    IF i = 0 THEN 0
    ELSE IF name[i] = "." THEN i
    ELSE rfind_dot(name, i - 1)

\* pathlib.PurePath.suffix: the text from the last dot on, unless that dot
\* starts or ends the name
suffix(name) ==
    LET i == rfind_dot(name, Len(name))
    IN  IF 1 < i /\ i < Len(name) THEN SubSeq(name, i, Len(name)) ELSE <<>>

\* the index of the first character of a name that is not a leading dot
RECURSIVE first_non_dot(_, _)
first_non_dot(name, i) ==
    IF i > Len(name) THEN i
    ELSE IF name[i] = "." THEN first_non_dot(name, i + 1)
    ELSE i

\* os.path.splitext(name)[1]: the text from the last dot on, leading dots ignored
splitext_ext(name) ==
    LET i == rfind_dot(name, Len(name))
    IN  IF i > 0 /\ first_non_dot(name, 1) < i
        THEN SubSeq(name, i, Len(name)) ELSE <<>>

-----------------------------------------------------------------------------
(* format_size *)

Base == 1024

Units == <<"B", "KB", "MB", "GB", "TB">>

\* double precision holds 53 bits, so five base-1024 digits are always exact
ExactDigits == 53 \div 10

DigitVals == {0, 1, 128, 512, Base - 1}

\* a non-negative integer as its base-1024 digits, least significant first
RECURSIVE ToDigits(_)
ToDigits(n) == IF n < Base THEN <<n>> ELSE <<n % Base>> \o ToDigits(n \div Base)

RECURSIVE Trim(_)
Trim(d) ==
    IF Len(d) <= 1 THEN (IF d = <<>> THEN <<0>> ELSE d)
    ELSE IF d[Len(d)] = 0 THEN Trim(SubSeq(d, 1, Len(d) - 1))
    ELSE d

RECURSIVE Inc(_)
Inc(d) ==
    IF d = <<>> THEN <<1>>
    ELSE IF d[1] + 1 < Base THEN <<d[1] + 1>> \o Tail(d)
    ELSE <<0>> \o Inc(Tail(d))

\* the value d / 1024^k is below 1024
BelowBase(d, k) == \A j \in (k + 2)..Len(d) : d[j] = 0

\* f * m for the fraction 0.f (digits least significant first): the digits of
\* the fractional part of the product, followed by its integer part
RECURSIVE MulCarry(_, _, _)
MulCarry(f, m, c) ==
    IF f = <<>> THEN <<c>>
    ELSE LET t == f[1] * m + c
         IN  <<t % Base>> \o MulCarry(Tail(f), m, t \div Base)

\* f"{d / 1024**k:.2f} {unit}": the value rounded to hundredths, ties to even
TwoDecimals(d, k, unit) ==
    LET kk    == IF k < Len(d) THEN k ELSE Len(d)
        whole == Trim(SubSeq(d, k + 1, Len(d)))
        p     == MulCarry(SubSeq(d, 1, kk), 100, 0)
        h     == p[Len(p)]
        rem   == SubSeq(p, 1, Len(p) - 1)
        top   == IF rem = <<>> THEN 0 ELSE rem[Len(rem)]
        low   == \E j \in 1..(Len(rem) - 1) : rem[j] # 0
        above == top > Base \div 2 \/ (top = Base \div 2 /\ low)
        tie   == top = Base \div 2 /\ ~low
        up    == above \/ (tie /\ h % 2 = 1)
        h2    == IF up THEN h + 1 ELSE h
    IN  [whole    |-> IF h2 = 100 THEN Inc(whole) ELSE whole,
         frac     |-> IF h2 = 100 THEN 0 ELSE h2,
         decimals |-> 2,
         unit     |-> unit]

RECURSIVE format_size_loop(_, _)
format_size_loop(d, k) ==
    IF k = Len(Units) THEN TwoDecimals(d, k, "PB")
    ELSE IF BelowBase(d, k) THEN TwoDecimals(d, k, Units[k + 1])
    ELSE format_size_loop(d, k + 1)

\* folder_report.format_size
format_size(size_bytes) == format_size_loop(size_bytes, 0)

\* folder_scanner.format_size
scanner_format_size(size_bytes) ==
    IF BelowBase(size_bytes, 0)
    THEN [whole |-> Trim(size_bytes), frac |-> 0, decimals |-> 0, unit |-> "B"]
    ELSE IF BelowBase(size_bytes, 1) THEN TwoDecimals(size_bytes, 1, "KB")
    ELSE IF BelowBase(size_bytes, 2) THEN TwoDecimals(size_bytes, 2, "MB")
    ELSE TwoDecimals(size_bytes, 3, "GB")

NoFmt == [whole |-> <<>>, frac |-> 0, decimals |-> 0, unit |-> ""]

\* byte counts: normalised digit strings whose nonzero digits fit a double
SizeInputs ==
    {d \in UNION {[1..n -> DigitVals] : n \in 1..MaxDigits} :
        /\ (Len(d) = 1 \/ d[Len(d)] # 0)
        /\ \A j \in 1..(Len(d) - ExactDigits) : d[j] = 0}

-----------------------------------------------------------------------------
(* The scanned tree *)

a_txt == <<"a", ".", "t", "x", "t">>
b_TXT == <<"b", ".", "T", "X", "T">>
c_name == <<"c">>
sub_name == <<"s", "u", "b">>
folder_name == <<"d">>
out_txt == <<"o", "u", "t", ".", "t", "x", "t">>

FileNames == {a_txt, b_TXT, c_name}
DirNames == {sub_name}

Files == [name : FileNames, is_file : {TRUE}, st_size : 0..MaxSize,
          stat_ok : BOOLEAN, depth : 1..MaxDepth]
Dirs == [name : DirNames, is_file : {FALSE}, st_size : {0},
         stat_ok : {TRUE}, depth : 1..MaxDepth]

\* a tree in walk order: an entry below the first level follows the directory
\* that holds it, and a directory holds a name once
WellFormed(t) ==
    /\ \A i \in 1..Len(t) :
          t[i].depth > 1 =>
             \E j \in 1..(i - 1) : ~t[j].is_file /\ t[j].depth = t[i].depth - 1
    /\ \A i, j \in 1..Len(t) :
          (i # j /\ t[i].depth = t[j].depth) => t[i].name # t[j].name

Trees ==
    {t \in UNION {[1..n -> Files \cup Dirs] : n \in 0..MaxEntries} : WellFormed(t)}

None == <<>>

\* the Path of an entry: its level and its name identify it
PathOf(e) == <<e.depth, e.name>>

Range(s) == {s[i] : i \in 1..Len(s)}

-----------------------------------------------------------------------------
(* filter_by_extension.scan_folder_filtered *)

normalize(exts) ==
    [i \in 1..Len(exts) |->
        lower(IF startswith_dot(exts[i]) THEN exts[i] ELSE <<".">> \o exts[i])]

ext_of(e) ==
    LET s == lower(suffix(e.name)) IN IF s = <<>> THEN NO_EXTENSION ELSE s

bucket_add(by_extension, ext, size) ==
    IF ext \in DOMAIN by_extension
    THEN [by_extension EXCEPT ![ext] = [count |-> @.count + 1, size |-> @.size + size]]
    ELSE by_extension @@ (ext :> [count |-> 1, size |-> size])

\* entry.stat().st_size, 0 when it raises OSError
stat_size(e) == IF e.stat_ok THEN e.st_size ELSE 0

\* the statistics of one retained file
retain(acc, e) ==
    LET size == stat_size(e)
    IN  [acc EXCEPT
            !.total_files = @ + 1,
            !.total_size = @ + size,
            !.largest_size = IF size >= acc.largest_size THEN size ELSE @,
            !.largest_file = IF size >= acc.largest_size THEN PathOf(e) ELSE @,
            !.by_extension = bucket_add(@, ext_of(e), size)]

\* variant: the size of a skipped file is still added to total_size
visit_filtered_sizes_skipped(acc, e, extensions, exclude) ==
    IF ~e.is_file THEN acc
    ELSE IF extensions # <<>> /\ ext_of(e) \notin Range(extensions)
    THEN [acc EXCEPT !.skipped = @ + 1, !.total_size = @ + stat_size(e)]
    ELSE IF exclude # <<>> /\ ext_of(e) \in Range(exclude)
    THEN [acc EXCEPT !.skipped = @ + 1, !.total_size = @ + stat_size(e)]
    ELSE retain(acc, e)

\* variant: the exclude set is consulted only when no include set is active
visit_filtered_elif(acc, e, extensions, exclude) ==
    IF ~e.is_file THEN acc
    ELSE IF extensions # <<>>
    THEN (IF ext_of(e) \notin Range(extensions)
          THEN [acc EXCEPT !.skipped = @ + 1] ELSE retain(acc, e))
    ELSE IF exclude # <<>> /\ ext_of(e) \in Range(exclude)
    THEN [acc EXCEPT !.skipped = @ + 1]
    ELSE retain(acc, e)

\* the body of the loop over root.rglob("*")
visit_filtered(acc, e, extensions, exclude) ==
    IF ~e.is_file THEN acc
    ELSE IF extensions # <<>> /\ ext_of(e) \notin Range(extensions)
    THEN [acc EXCEPT !.skipped = @ + 1]
    ELSE IF exclude # <<>> /\ ext_of(e) \in Range(exclude)
    THEN [acc EXCEPT !.skipped = @ + 1]
    ELSE retain(acc, e)

RECURSIVE walk_filtered(_, _, _, _, _)
walk_filtered(acc, tree, i, extensions, exclude) ==
    IF i > Len(tree) THEN acc
    ELSE walk_filtered(visit_filtered(acc, tree[i], extensions, exclude),
                       tree, i + 1, extensions, exclude)

EmptyStats ==
    [total_files |-> 0, total_size |-> 0, largest_file |-> None,
     largest_size |-> 0, by_extension |-> <<>>, skipped |-> 0,
     filter_include |-> <<>>, filter_exclude |-> <<>>]

\* variant: the exclude list is used as given, without normalising it
scan_folder_filtered_raw_exclude(is_dir, tree, extensions, exclude) ==
    IF ~is_dir THEN [raised |-> "NotADirectoryError", value |-> EmptyStats]
    ELSE LET inc == IF extensions # <<>> THEN normalize(extensions) ELSE extensions
         IN  [raised |-> "",
              value  |-> [walk_filtered(EmptyStats, tree, 1, inc, exclude)
                             EXCEPT !.filter_include = inc, !.filter_exclude = exclude]]

\* the call: what it raised ("" when it returned) and the dict it returned
scan_folder_filtered(is_dir, tree, extensions, exclude) ==
    IF ~is_dir THEN [raised |-> "NotADirectoryError", value |-> EmptyStats]
    ELSE LET inc == IF extensions # <<>> THEN normalize(extensions) ELSE extensions
             exc == IF exclude # <<>> THEN normalize(exclude) ELSE exclude
         IN  [raised |-> "",
              value  |-> [walk_filtered(EmptyStats, tree, 1, inc, exc)
                             EXCEPT !.filter_include = inc, !.filter_exclude = exc]]

-----------------------------------------------------------------------------
(* folder_report.scan_folder *)

\* variant: every entry is counted, directories too
visit_report_counts_dirs(acc, e) == retain(acc, e)

visit_report(acc, e) == IF e.is_file THEN retain(acc, e) ELSE acc

RECURSIVE walk_report(_, _, _)
walk_report(acc, tree, i) ==
    IF i > Len(tree) THEN acc
    ELSE walk_report(visit_report(acc, tree[i]), tree, i + 1)

\* variant: the root is walked without checking that it is a directory
scan_folder_unchecked(is_dir, tree) ==
    [raised |-> "", value |-> walk_report(EmptyStats, tree, 1)]

scan_folder(is_dir, tree) ==
    IF ~is_dir THEN [raised |-> "NotADirectoryError", value |-> EmptyStats]
    ELSE [raised |-> "", value |-> walk_report(EmptyStats, tree, 1)]

-----------------------------------------------------------------------------
(* folder_scanner.scan_folder *)

scanner_ext_of(e) ==
    LET s == splitext_ext(e.name) IN IF s # <<>> THEN lower(s) ELSE NO_EXTENSION

counter_add(counter, ext) ==
    IF ext \in DOMAIN counter
    THEN [counter EXCEPT ![ext] = @ + 1]
    ELSE counter @@ (ext :> 1)

\* the body of the loop over os.listdir(folder_path): only the entries of the
\* folder itself are listed, and os.path.getsize is not guarded
visit_scanner(acc, e) ==
    IF acc.raised # "" \/ e.depth # 1 \/ ~e.is_file THEN acc
    ELSE IF ~e.stat_ok
    THEN [acc EXCEPT !.raised = "OSError", !.value.total_files = @ + 1]
    ELSE [acc EXCEPT
            !.value.total_files = @ + 1,
            !.value.total_size = @ + e.st_size,
            !.value.largest_file_size =
                IF e.st_size > acc.value.largest_file_size THEN e.st_size ELSE @,
            !.value.largest_file_name =
                IF e.st_size > acc.value.largest_file_size THEN e.name ELSE @,
            !.value.extensions = counter_add(@, scanner_ext_of(e))]

RECURSIVE walk_scanner(_, _, _)
walk_scanner(acc, tree, i) ==
    IF i > Len(tree) THEN acc
    ELSE walk_scanner(visit_scanner(acc, tree[i]), tree, i + 1)

ScannerEmpty ==
    [total_files |-> 0, total_size |-> 0, largest_file_name |-> None,
     largest_file_size |-> 0, extensions |-> <<>>]

scanner_scan_folder(is_dir, tree) ==
    IF ~is_dir THEN [raised |-> "SystemExit", value |-> ScannerEmpty]
    ELSE walk_scanner([raised |-> "", value |-> ScannerEmpty], tree, 1)

-----------------------------------------------------------------------------
(* The reports *)

Line(tag, name, count, size) ==
    [tag |-> tag, name |-> name, count |-> count, size |-> size]

Text(tag) == Line(tag, <<>>, 0, NoFmt)

\* one line per bucket, in sorted(keys) order
ext_lines(by_extension) ==
    LET ks == sorted(DOMAIN by_extension)
    IN  [i \in 1..Len(ks) |->
            Line("ext", ks[i], by_extension[ks[i]].count,
                 format_size(ToDigits(by_extension[ks[i]].size)))]

largest_lines(d) ==
    IF d.largest_file # None
    THEN <<Line("largest", d.largest_file[2], 0, format_size(ToDigits(d.largest_size))),
           Line("path", d.largest_file[2], d.largest_file[1], NoFmt)>>
    ELSE <<Text("largest_none")>>

\* folder_report.build_report
build_report(d) ==
    <<Text("rule"), Text("title"), Text("rule"), Text("folder"), Text("blank"),
      Text("summary"), Text("dash"),
      Line("total_files", <<>>, d.total_files, NoFmt),
      Line("total_size", <<>>, 0, format_size(ToDigits(d.total_size))),
      Text("blank")>>
    \o largest_lines(d)
    \o <<Text("blank"), Text("breakdown"), Text("dash")>>
    \o ext_lines(d.by_extension)
    \o <<Text("rule")>>

\* filter_by_extension.build_filtered_report
build_filtered_report(d) ==
    <<Text("rule"), Text("title_filtered"), Text("rule"), Text("folder"), Text("blank")>>
    \o (IF d.filter_include # <<>> THEN <<Text("include")>> ELSE <<>>)
    \o (IF d.filter_exclude # <<>> THEN <<Text("exclude")>> ELSE <<>>)
    \o <<Line("skipped", <<>>, d.skipped, NoFmt),
         Text("blank"), Text("summary"), Text("dash"),
         Line("total_files", <<>>, d.total_files, NoFmt),
         Line("total_size", <<>>, 0, format_size(ToDigits(d.total_size))),
         Text("blank")>>
    \o largest_lines(d)
    \o <<Text("blank"), Text("breakdown"), Text("dash")>>
    \o ext_lines(d.by_extension)
    \o <<Text("rule")>>

scanner_ext_lines(extensions) ==
    LET ks == sorted(DOMAIN extensions)
    IN  [i \in 1..Len(ks) |-> Line("ext", ks[i], extensions[ks[i]], NoFmt)]

\* folder_scanner.build_report
scanner_build_report(d) ==
    <<Text("rule"), Text("title"), Text("rule"), Text("folder"), Text("scan_date"),
      Text("dash"),
      Line("total_files", <<>>, d.total_files, NoFmt),
      Line("total_size", <<>>, 0, scanner_format_size(ToDigits(d.total_size)))>>
    \o (IF d.largest_file_name # <<>>
        THEN <<Line("largest", d.largest_file_name, 0,
                    scanner_format_size(ToDigits(d.largest_file_size)))>>
        ELSE <<Text("largest_none")>>)
    \o <<Text("dash"), Text("breakdown")>>
    \o (IF DOMAIN d.extensions # {}
        THEN scanner_ext_lines(d.extensions)
        ELSE <<Text("no_files")>>)
    \o <<Text("rule")>>

-----------------------------------------------------------------------------
(* Persisting the report *)

folder_report_prefix ==
    <<"f", "o", "l", "d", "e", "r", "_", "r", "e", "p", "o", "r", "t", "_">>
filtered_report_prefix ==
    <<"f", "i", "l", "t", "e", "r", "e", "d", "_", "r", "e", "p", "o", "r", "t", "_">>

\* f"{prefix}{folder_name}.txt"
default_report_name(prefix) == prefix \o folder_name \o <<".", "t", "x", "t">>

InsertAt(tree, p, e) == SubSeq(tree, 1, p) \o <<e>> \o SubSeq(tree, p + 1, Len(tree))

\* Path.write_text on a file of the scanned folder itself: an existing file is
\* overwritten in place, a new one appears at position p of the listing order.
\* The size written stands for len(report); it is never 0.
write_text(tree, name, size, p) ==
    IF \E i \in 1..Len(tree) : tree[i].depth = 1 /\ tree[i].name = name
    THEN [i \in 1..Len(tree) |->
            IF tree[i].depth = 1 /\ tree[i].name = name
            THEN [tree[i] EXCEPT !.st_size = size] ELSE tree[i]]
    ELSE InsertAt(tree, p,
                  [name |-> name, is_file |-> TRUE, st_size |-> size,
                   stat_ok |-> TRUE, depth |-> 1])

-----------------------------------------------------------------------------
(* Invocations *)

NoExit == 0 - 1

\* --ext / --exclude values; the empty list stands for the default None as well
ExtArgs ==
    {<<>>, <<<<"T", "X", "T">>>>, <<NO_EXTENSION>>,
     <<<<".", "t", "x", "t">>, NO_EXTENSION>>}

OutputArgs == {None, out_txt}

FilterArgs ==
    [ext : ExtArgs, exclude : ExtArgs, no_save : BOOLEAN, output : OutputArgs,
     direct : {FALSE}, argv_ok : {TRUE}]
    \cup
    [ext : ExtArgs, exclude : ExtArgs, no_save : {FALSE}, output : {None},
     direct : {TRUE}, argv_ok : {TRUE}]

ReportArgs ==
    [ext : {<<>>}, exclude : {<<>>}, no_save : BOOLEAN, output : OutputArgs,
     direct : {FALSE}, argv_ok : {TRUE}]

ScannerArgs ==
    [ext : {<<>>}, exclude : {<<>>}, no_save : {FALSE}, output : {None},
     direct : {FALSE}, argv_ok : BOOLEAN]

Init ==
    /\ root_is_dir \in BOOLEAN
    /\ fs \in (IF root_is_dir THEN Trees ELSE {<<>>})
    /\ prog \in {"filter", "report", "scanner"}
    /\ args \in (CASE prog = "filter" -> FilterArgs
                   [] prog = "report" -> ReportArgs
                   [] prog = "scanner" -> ScannerArgs)
    /\ pc = "start"
    /\ data = <<>>
    /\ report = <<>>
    /\ stdout = <<>>
    /\ written = {}
    /\ exit_code = NoExit
    /\ raised = ""
    /\ run = 1
    /\ prev = <<>>
    /\ fmt_fn = ""
    /\ fmt_in = <<0>>
    /\ fmt_out = NoFmt

Frame == UNCHANGED <<root_is_dir, prog, args, run, prev, fmt_fn, fmt_in, fmt_out>>

\* the scan raised: main prints the error and returns 1
ScanFailed(r) ==
    /\ raised' = r.raised
    /\ stdout' = <<"Error">>
    /\ exit_code' = 1
    /\ pc' = "exit"
    /\ UNCHANGED <<data, report, written, fs>>

ScanReturned(r) ==
    /\ data' = <<r.value>>
    /\ pc' = "scanned"
    /\ UNCHANGED <<raised, stdout, exit_code, report, written, fs>>

\* print(report)
Built(text) ==
    /\ report' = text
    /\ stdout' = <<"report">>
    /\ pc' = "reported"
    /\ UNCHANGED <<data, raised, exit_code, written, fs>>

\* the tail of main in folder_report and filter_by_extension
Save(prefix, p, ok) ==
    /\ pc' = "exit"
    /\ UNCHANGED <<data, report>>
    /\ IF args.no_save
       THEN /\ exit_code' = 0
            /\ UNCHANGED <<fs, written, stdout, raised>>
       ELSE IF ~ok
       THEN /\ raised' = "OSError"
            /\ exit_code' = 1
            /\ UNCHANGED <<fs, written, stdout>>
       ELSE /\ exit_code' = 0
            /\ stdout' = stdout \o <<"saved">>
            /\ UNCHANGED raised
            /\ IF args.output # None
               THEN /\ written' = written \cup {args.output}
                    /\ UNCHANGED fs
               ELSE /\ written' = written \cup {default_report_name(prefix)}
                    /\ fs' = write_text(fs, default_report_name(prefix), Len(report), p)

\* filter_by_extension.main: --ext together with --exclude is a usage error
FilterUsageError ==
    /\ pc = "start" /\ prog = "filter" /\ ~args.direct
    /\ args.ext # <<>> /\ args.exclude # <<>>
    /\ exit_code' = 2
    /\ pc' = "exit"
    /\ UNCHANGED <<data, report, stdout, written, raised, fs>>
    /\ Frame

FilterScan ==
    /\ pc = "start" /\ prog = "filter" /\ ~args.direct
    /\ ~(args.ext # <<>> /\ args.exclude # <<>>)
    /\ LET r == scan_folder_filtered(root_is_dir, fs, args.ext, args.exclude)
       IN  IF r.raised # "" THEN ScanFailed(r) ELSE ScanReturned(r)
    /\ Frame

\* scan_folder_filtered called as a function, with any pair of lists
FilterCall ==
    /\ pc = "start" /\ prog = "filter" /\ args.direct
    /\ LET r == scan_folder_filtered(root_is_dir, fs, args.ext, args.exclude)
       IN  /\ raised' = r.raised
           /\ data' = IF r.raised # "" THEN <<>> ELSE <<r.value>>
    /\ pc' = "returned"
    /\ UNCHANGED <<report, stdout, written, exit_code, fs>>
    /\ Frame

FilterReport ==
    /\ pc = "scanned" /\ prog = "filter"
    /\ Built(build_filtered_report(data[1]))
    /\ Frame

FilterSave ==
    /\ pc = "reported" /\ prog = "filter"
    /\ \E p \in 0..Len(fs), ok \in BOOLEAN : Save(filtered_report_prefix, p, ok)
    /\ Frame

\* folder_report.main
ReportScan ==
    /\ pc = "start" /\ prog = "report"
    /\ LET r == scan_folder(root_is_dir, fs)
       IN  IF r.raised # "" THEN ScanFailed(r) ELSE ScanReturned(r)
    /\ Frame

ReportBuild ==
    /\ pc = "scanned" /\ prog = "report"
    /\ Built(build_report(data[1]))
    /\ Frame

ReportSave ==
    /\ pc = "reported" /\ prog = "report"
    /\ \E p \in 0..Len(fs), ok \in BOOLEAN : Save(folder_report_prefix, p, ok)
    /\ Frame

\* folder_scanner.main
ScannerUsage ==
    /\ pc = "start" /\ prog = "scanner" /\ ~args.argv_ok
    /\ stdout' = <<"Usage">>
    /\ exit_code' = 1
    /\ pc' = "exit"
    /\ UNCHANGED <<data, report, written, raised, fs>>
    /\ Frame

\* sys.exit(1) in scan_folder and an uncaught OSError both end the process with 1
ScannerScan ==
    /\ pc = "start" /\ prog = "scanner" /\ args.argv_ok
    /\ LET r == scanner_scan_folder(root_is_dir, fs)
       IN  IF r.raised # ""
           THEN /\ raised' = r.raised
                /\ stdout' = IF r.raised = "SystemExit" THEN <<"Error">> ELSE <<>>
                /\ exit_code' = 1
                /\ pc' = "exit"
                /\ UNCHANGED <<data, report, written, fs>>
           ELSE ScanReturned(r)
    /\ Frame

ScannerBuild ==
    /\ pc = "scanned" /\ prog = "scanner"
    /\ Built(scanner_build_report(data[1]))
    /\ Frame

\* scan_report.txt is opened in the working directory, taken to lie outside the tree
ScannerSave ==
    /\ pc = "reported" /\ prog = "scanner"
    /\ \E ok \in BOOLEAN :
          IF ok
          THEN /\ written' = written \cup {<<"s", "c", "a", "n", "_", "r", "e", "p", "o", "r", "t", ".", "t", "x", "t">>}
               /\ stdout' = stdout \o <<"saved">>
               /\ exit_code' = 0
               /\ UNCHANGED raised
          ELSE /\ raised' = "OSError"
               /\ exit_code' = 1
               /\ UNCHANGED <<written, stdout>>
    /\ pc' = "exit"
    /\ UNCHANGED <<data, report, fs>>
    /\ Frame

Next ==
    \/ FilterUsageError
    \/ FilterScan
    \/ FilterCall
    \/ FilterReport
    \/ FilterSave
    \/ ReportScan
    \/ ReportBuild
    \/ ReportSave
    \/ ScannerUsage
    \/ ScannerScan
    \/ ScannerBuild
    \/ ScannerSave

Spec == Init /\ [][Next]_vars

\* the same command line is run a second time once the first run has ended
Rerun ==
    /\ pc = "exit" /\ run = 1
    /\ run' = 2
    /\ prev' = data
    /\ pc' = "start"
    /\ data' = <<>>
    /\ report' = <<>>
    /\ stdout' = <<>>
    /\ exit_code' = NoExit
    /\ raised' = ""
    /\ UNCHANGED <<root_is_dir, fs, prog, args, written, fmt_fn, fmt_in, fmt_out>>

NextRerun == Next \/ Rerun

SpecRerun == Init /\ [][NextRerun]_vars

\* format_size applied to one byte count
InitFmt ==
    /\ root_is_dir = TRUE
    /\ fs = <<>>
    /\ prog = "format"
    /\ args = [ext |-> <<>>, exclude |-> <<>>, no_save |-> TRUE, output |-> None,
               direct |-> TRUE, argv_ok |-> TRUE]
    /\ pc = "start"
    /\ data = <<>>
    /\ report = <<>>
    /\ stdout = <<>>
    /\ written = {}
    /\ exit_code = NoExit
    /\ raised = ""
    /\ run = 1
    /\ prev = <<>>
    /\ fmt_fn = ""
    /\ fmt_in \in SizeInputs
    /\ fmt_out = NoFmt

CallFormatSize ==
    /\ fmt_fn = ""
    /\ fmt_fn' = "folder_report"
    /\ fmt_out' = format_size(fmt_in)
    /\ UNCHANGED <<fmt_in, root_is_dir, fs, prog, args, pc, data, report, stdout,
                   written, exit_code, raised, run, prev>>

CallScannerFormatSize ==
    /\ fmt_fn = ""
    /\ fmt_fn' = "folder_scanner"
    /\ fmt_out' = scanner_format_size(fmt_in)
    /\ UNCHANGED <<fmt_in, root_is_dir, fs, prog, args, pc, data, report, stdout,
                   written, exit_code, raised, run, prev>>

NextFmt == CallFormatSize \/ CallScannerFormatSize

SpecFmt == InitFmt /\ [][NextFmt]_vars

-----------------------------------------------------------------------------
(* What the properties speak of, stated apart from the scanning code *)

dot_txt == <<".", "t", "x", "t">>

\* the extension key of each name of the model, as section 3 of the design defines it
ExpectedExt(name) ==
    CASE name = a_txt -> dot_txt
      [] name = b_TXT -> dot_txt
      [] name = c_name -> NO_EXTENSION
      [] OTHER -> dot_txt

FileIdx == {i \in 1..Len(fs) : fs[i].is_file}

IncludeSet == Range(normalize(args.ext))
ExcludeSet == Range(normalize(args.exclude))

\* the file passes the filters that are active
Passes(e) ==
    /\ args.ext # <<>> => ExpectedExt(e.name) \in IncludeSet
    /\ args.exclude # <<>> => ExpectedExt(e.name) \notin ExcludeSet

\* the files the scan retains
Retained ==
    CASE prog = "filter" -> {i \in FileIdx : Passes(fs[i])}
      [] prog = "report" -> FileIdx
      [] OTHER -> {i \in FileIdx : fs[i].depth = 1}

\* the size a file contributes: 0 when it cannot be read
SizeOf(e) == IF e.stat_ok THEN e.st_size ELSE 0

RECURSIVE SumSizes(_)
SumSizes(S) ==
    IF S = {} THEN 0
    ELSE LET i == CHOOSE j \in S : TRUE IN SizeOf(fs[i]) + SumSizes(S \ {i})

\* the scan has returned and the tree is still the one it walked
Scanned == pc \in {"scanned", "reported", "returned"} /\ data # <<>>

UsageError ==
    \/ prog = "filter" /\ ~args.direct /\ args.ext # <<>> /\ args.exclude # <<>>
    \/ prog = "scanner" /\ ~args.argv_ok

Recursive == prog \in {"filter", "report"}

-----------------------------------------------------------------------------
(* C1: the recursive scans count exactly the regular files, at any depth, that
   pass the active filter; directories are never counted. *)
C1_TotalFilesCountsRetainedFiles ==
    (Recursive /\ Scanned) =>
        data[1].total_files = Cardinality({i \in FileIdx : Passes(fs[i])})

\* a filtered scan of a tree with a directory and a retained file inside it
C1_Witness ==
    /\ prog = "filter" /\ pc = "scanned" /\ args.ext # <<>>
    /\ \E i, j \in 1..Len(fs) :
          /\ ~fs[i].is_file
          /\ fs[j].is_file /\ fs[j].depth = 2 /\ Passes(fs[j])
    /\ data[1].total_files = 1

(* C2: total_size is the sum of the sizes of the retained files, skipped files
   contribute nothing, and with no retained file total_size is 0 and
   largest_file is None. *)
C2_TotalSizeIsSumOfRetained ==
    (Recursive /\ Scanned) =>
        /\ data[1].total_size = SumSizes(Retained)
        /\ Retained = {} => (data[1].total_size = 0 /\ data[1].largest_file = None)

\* one retained and one skipped file, both of positive size
C2_Witness ==
    /\ prog = "filter" /\ pc = "scanned"
    /\ \E i, j \in FileIdx :
          /\ i \in Retained /\ j \notin Retained
          /\ SizeOf(fs[i]) > 0 /\ SizeOf(fs[j]) > 0
    /\ data[1].total_size > 0

\* the retained files of maximal size
Largest == {i \in Retained : \A j \in Retained : SizeOf(fs[j]) <= SizeOf(fs[i])}

LastOf(S) == CHOOSE i \in S : \A j \in S : j <= i

(* C3: in every scan function, among the retained files of maximal size the one
   visited last is reported as the largest file. *)
C3_LastOfEqualLargestWins ==
    (Scanned /\ Cardinality(Largest) >= 2) =>
        IF Recursive
        THEN data[1].largest_file = PathOf(fs[LastOf(Largest)])
        ELSE data[1].largest_file_name = fs[LastOf(Largest)].name

\* the extension key a caller names by ".txt", "TXT" or "(no extension)"
KeyNamed(s) ==
    IF s = NO_EXTENSION THEN NO_EXTENSION
    ELSE lower(IF startswith_dot(s) THEN s ELSE <<".">> \o s)

\* S names exactly the extensions present in the tree
Covers(S) ==
    {KeyNamed(S[i]) : i \in 1..Len(S)} = {ExpectedExt(fs[i].name) : i \in FileIdx}

(* C4: for a list S that covers exactly the extensions present, the files kept
   by extensions=S plus the files kept by exclude=S are the files of the
   unfiltered scan. *)
C4_IncludeExcludeComplement ==
    (prog = "filter" /\ Scanned /\ args.exclude = <<>> /\ Covers(args.ext)) =>
        data[1].total_files
          + scan_folder_filtered(TRUE, fs, <<>>, args.ext).value.total_files
        = scan_folder_filtered(TRUE, fs, <<>>, <<>>).value.total_files

\* a tree with a .txt file and a file without extension, S naming both
C4_Witness ==
    /\ prog = "filter" /\ pc = "scanned" /\ args.exclude = <<>>
    /\ Len(args.ext) = 2 /\ Covers(args.ext)
    /\ Cardinality(FileIdx) = 2


AllUnits == Units \o <<"PB">>

Min(a, b) == IF a < b THEN a ELSE b

(* C5: format_size divides by 1024 while the value is at least 1024, through
   B, KB, MB, GB, TB and stopping at PB, and renders two decimals and the
   unit: 0 is "0.00 B", 1023 is "1023.00 B", 1024 is "1.00 KB", 1536 is
   "1.50 KB", 1048576 is "1.00 MB", and 1024^6 or more is in PB. *)
C5_FormatSizeUnitsAndDecimals ==
    fmt_fn # "" =>
        /\ fmt_out.unit = AllUnits[Min(5, Len(fmt_in) - 1) + 1]
        /\ fmt_out.decimals = 2
        /\ fmt_in = <<0>> => (fmt_out.whole = <<0>> /\ fmt_out.frac = 0)
        /\ fmt_in = <<Base - 1>> => (fmt_out.whole = <<Base - 1>> /\ fmt_out.frac = 0)
        /\ fmt_in = <<0, 1>> => (fmt_out.whole = <<1>> /\ fmt_out.frac = 0)
        /\ fmt_in = <<512, 1>> => (fmt_out.whole = <<1>> /\ fmt_out.frac = 50)
        /\ fmt_in = <<0, 0, 1>> => (fmt_out.whole = <<1>> /\ fmt_out.frac = 0)

\* the statement of C5 holds of folder_report.format_size alone
FolderReportFormatSize == fmt_fn = "folder_report" => C5_FormatSizeUnitsAndDecimals

(* C6: with a root that is no directory the scan raises NotADirectoryError and
   returns nothing, and main ends with a non-zero exit code without building
   or writing a report. *)
C6_InvalidRootFailsWithoutReport ==
    (Recursive /\ ~root_is_dir /\ ~UsageError /\ pc # "start") =>
        /\ raised = "NotADirectoryError"
        /\ data = <<>>
        /\ report = <<>>
        /\ written = {}
        /\ ~args.direct => (pc = "exit" /\ exit_code # 0 /\ exit_code # NoExit)

C6_Witness ==
    /\ prog = "filter" /\ ~args.direct /\ ~root_is_dir
    /\ pc = "exit" /\ exit_code = 1 /\ raised = "NotADirectoryError"

\* the number of files counted under an extension key
BucketCount(key) ==
    IF Recursive
    THEN (IF key \in DOMAIN data[1].by_extension
          THEN data[1].by_extension[key].count ELSE 0)
    ELSE (IF key \in DOMAIN data[1].extensions
          THEN data[1].extensions[key] ELSE 0)

\* the scan of the running invocation was called
ScanCalled == pc # "start" /\ ~UsageError /\ root_is_dir

(* C7: in every scan function a failure to read the size of a retained file is
   recovered: the file is counted, in total_files and in its bucket, with
   size 0, the walk goes on and the scan returns normally. *)
C7_SizeReadFailureRecovered ==
    (ScanCalled /\ \E i \in Retained : ~fs[i].stat_ok) =>
        /\ pc # "exit" => raised = ""
        /\ pc \in {"scanned", "reported", "returned"} =>
              /\ data # <<>>
              /\ data[1].total_files = Cardinality(Retained)
              /\ data[1].total_size = SumSizes(Retained)
              /\ \A i \in Retained :
                    BucketCount(ExpectedExt(fs[i].name)) =
                       Cardinality({j \in Retained :
                                       ExpectedExt(fs[j].name) = ExpectedExt(fs[i].name)})
        /\ pc = "exit" => report # <<>>

LargestLines == {i \in 1..Len(report) : report[i].tag \in {"largest", "largest_none"}}

(* C8: every rendered report has exactly one largest-file line; it names a file
   exactly when the scan retained a file, and is the "(none)" line exactly
   when it retained none. *)
C8_OneLargestLineNamesAFile ==
    (pc = "reported") =>
        /\ Cardinality(LargestLines) = 1
        /\ \A i \in LargestLines :
              report[i].tag = "largest" <=> data[1].total_files > 0

\* skipped as the "else if" reading has it: exclude is consulted only without include
SkippedElseIf(e) ==
    IF args.ext # <<>> THEN ExpectedExt(e.name) \notin IncludeSet
    ELSE IF args.exclude # <<>> THEN ExpectedExt(e.name) \in ExcludeSet
    ELSE FALSE

RECURSIVE SumCounts(_, _)
SumCounts(b, K) ==
    IF K = {} THEN 0
    ELSE LET k == CHOOSE x \in K : TRUE IN b[k].count + SumCounts(b, K \ {k})

\* a skipped file touches nothing but skipped
SkippedOnlyCounted ==
    /\ data[1].total_files + data[1].skipped = Cardinality(FileIdx)
    /\ data[1].total_size = SumSizes(Retained)
    /\ SumCounts(data[1].by_extension, DOMAIN data[1].by_extension) = data[1].total_files

(* C9 as stated: with an include set active a file is skipped exactly when its
   extension is not in it, the exclude set being consulted only otherwise. *)
C9_ExcludeOnlyWithoutInclude ==
    (prog = "filter" /\ Scanned) =>
        /\ data[1].skipped = Cardinality({i \in FileIdx : SkippedElseIf(fs[i])})
        /\ SkippedOnlyCounted

(* C9 as amended: a file is skipped exactly when an active include set lacks
   its extension or an active exclude set holds it; both sets are consulted.
   Every skipped file adds one to skipped and nothing else, so total_files +
   skipped is the number of regular files visited. *)
C9_SkippedByIncludeOrExclude ==
    (prog = "filter" /\ Scanned) =>
        /\ data[1].skipped = Cardinality({i \in FileIdx : ~Passes(fs[i])})
        /\ SkippedOnlyCounted

\* both sets active, and a file the include set admits is skipped by the exclude set
C9_Witness ==
    /\ prog = "filter" /\ pc = "returned" /\ data # <<>>
    /\ args.ext # <<>> /\ args.exclude # <<>>
    /\ \E i \in FileIdx :
          /\ ExpectedExt(fs[i].name) \in IncludeSet
          /\ ExpectedExt(fs[i].name) \in ExcludeSet
    /\ data[1].skipped >= 1

(* C10: a second run of main with the same arguments, in the default save
   mode, scans to the same result as the first. *)
C10_RerunSameResult ==
    (Recursive /\ run = 2 /\ pc = "scanned" /\ prev # <<>>
       /\ ~args.no_save /\ args.output = None) =>
        /\ data[1].total_files = prev[1].total_files
        /\ data[1].total_size = prev[1].total_size
        /\ data[1].skipped = prev[1].skipped
        /\ data[1].by_extension = prev[1].by_extension


-----------------------------------------------------------------------------
(* The statements of C3, C7 and C8 hold of the two recursive scans,
   filter_by_extension and folder_report. *)
RecursiveLastOfEqualLargestWins == Recursive => C3_LastOfEqualLargestWins
RecursiveSizeReadFailureRecovered == Recursive => C7_SizeReadFailureRecovered
RecursiveOneLargestLine == Recursive => C8_OneLargestLineNamesAFile

====
